---- MODULE Spec2Model ----
(***************************************************************************)
(* Model of static/web.js: the checkbox-to-"ignore"-class bindings and the *)
(* text-area auto-resize.  The file holds two copies of the script: copy 1 *)
(* (lines 1-60, togglechildren cascades with .change(), has togglesection) *)
(* and copy 2 (lines 62-107, togglechildren sets the property silently).   *)
(* The page loads the file as it is (both copies) or one copy taken alone. *)
(***************************************************************************)
EXTENDS Integers, Sequences, FiniteSets, TLC

VARIABLES
  copies,     \* the copies of the script the page loads: {1}, {2} or {1, 2}
  classes,    \* checkbox -> its marker classes (fixed by the page's HTML)
  checked,    \* checkbox -> its checked property
  ignore,     \* <tr> or <table> -> whether it carries the class "ignore"
  ready,      \* the ready callbacks have run
  installed,  \* the copies whose change handlers are bound
  sized,      \* the copies whose text-area handlers are bound
  last,       \* the last event dispatched and what its handlers did
  content,    \* text area -> number of characters of its value
  height,     \* text area -> inline height in px (0: no inline height)
  width       \* characters per line at the current window width

vars == <<copies, classes, checked, ignore, ready, installed, sized, last,
          content, height, width>>

-----------------------------------------------------------------------------
(* Bounds *)

\* call depth at which the engine throws RangeError (stack exhausted)
MaxStack == 6
\* most characters a text area holds
MaxChars == 4
\* widest window, in characters per line
MaxWidth == 2

-----------------------------------------------------------------------------
(* The document.  Elements are listed in document order:                   *)
(*   <table T> <tr R1> <input A> <input B> </tr>                           *)
(*             <tr R2> <input C> </tr> </table>                            *)
(*   <input D>                      (no enclosing <tr>, no <table>)        *)

None == "none"

DocOrder == <<"T", "R1", "A", "B", "R2", "C", "D">>

Checkbox == {"A", "B", "C", "D"}

Row == {"R1", "R2"}

Table == {"T"}

Textarea == {"X", "Y"}

Marker == {"togglevisible", "togglechildren", "togglesection"}

Tag(n) ==
  CASE n \in Table -> "table"
    [] n \in Row -> "tr"
    [] n \in Checkbox -> "input"
    [] n \in Textarea -> "textarea"
    [] OTHER -> "body"

Parent(n) ==
  CASE n \in {"R1", "R2"} -> "T"
    [] n \in {"A", "B"} -> "R1"
    [] n = "C" -> "R2"
    [] OTHER -> None

\* the marker classes the page's HTML may give each checkbox
ClassChoices(c) ==
  CASE c = "A" -> SUBSET Marker
    [] c = "B" -> {{"togglevisible"}}
    [] c = "C" -> {{"togglevisible"}}
    [] OTHER -> {{"togglevisible"}, {"togglevisible", "togglechildren"}}

\* $(n).closest(tag): the nearest ancestor-or-self with that tag, or None
RECURSIVE Closest(_, _)
Closest(n, tag) ==
  IF n = None THEN None
  ELSE IF Tag(n) = tag THEN n
  ELSE Closest(Parent(n), tag)

RECURSIVE IsInside(_, _)
IsInside(n, anc) ==
  IF n = None \/ Parent(n) = None THEN FALSE
  ELSE Parent(n) = anc \/ IsInside(Parent(n), anc)

\* the elements of a sequence that satisfy Keep, in order
RECURSIVE SelectInOrder(_, _)
SelectInOrder(s, keep) ==
  IF s = <<>> THEN <<>>
  ELSE IF Head(s) \in keep THEN <<Head(s)>> \o SelectInOrder(Tail(s), keep)
  ELSE SelectInOrder(Tail(s), keep)

\* $('.cls'): every element carrying the class, in document order
Select(cls) == SelectInOrder(DocOrder, {c \in Checkbox : cls \in classes[c]})

\* $(root).find('.cls'): the descendants of root carrying the class, in
\* document order; empty when root is None (an empty jQuery set)
Find(root, cls) ==
  SelectInOrder(DocOrder,
                {c \in Checkbox : cls \in classes[c] /\ IsInside(c, root)})

-----------------------------------------------------------------------------
(* Handlers.  A handler maps the page state st = [checked, ignore, err,    *)
(* rowSyncs, propagations, origin] to the state it leaves.  err is set     *)
(* when a call finds the stack exhausted: the RangeError unwinds every     *)
(* frame, so nothing after it runs.                                        *)

\* .addClass('ignore') / .removeClass('ignore') on a closest() result; on an
\* empty result (None) jQuery does nothing
SetIgnore(st, el, on) ==
  IF el = None THEN st
  ELSE [st EXCEPT !.ignore = [@ EXCEPT ![el] = on]]

\* UpdateRow with toggleClass('ignore') in place of add/removeClass
UpdateRowToggle(st, c) ==
  LET counted == IF c = st.origin
                 THEN [st EXCEPT !.rowSyncs = @ + 1] ELSE st
      tr == Closest(c, "tr")
  IN  IF tr = None THEN counted ELSE SetIgnore(counted, tr, ~st.ignore[tr])

\* UpdateRow selecting $('tr') in place of $(this).closest('tr')
UpdateRowEveryRow(st, c) ==
  [st EXCEPT !.ignore = [e \in DOMAIN @ |->
                           IF e \in Row THEN ~st.checked[c] ELSE @[e]]]

\* UpdateRow (lines 1-12 and 62-73): the closest <tr> of the checkbox loses
\* "ignore" when the checkbox is checked and gains it otherwise
UpdateRow(st, c) ==
  LET counted == IF c = st.origin
                 THEN [st EXCEPT !.rowSyncs = @ + 1] ELSE st
  IN  IF st.checked[c]
      THEN SetIgnore(counted, Closest(c, "tr"), FALSE)
      ELSE SetIgnore(counted, Closest(c, "tr"), TRUE)

\* .prop('checked', v) on every element of a jQuery set
RECURSIVE SetChecked(_, _, _)
SetChecked(st, targets, v) ==
  IF targets = <<>> THEN st
  ELSE SetChecked([st EXCEPT !.checked = [@ EXCEPT ![Head(targets)] = v]],
                  Tail(targets), v)

TogglesectionChange(st, c) ==
  IF st.checked[c]
  THEN SetIgnore(st, Closest(c, "table"), FALSE)
  ELSE SetIgnore(st, Closest(c, "table"), TRUE)

RECURSIVE UpdateRowEach(_, _)

\* copy 2's togglechildren handler also syncing the rows it changed
TogglechildrenSilentSync(st, c) ==
  LET targets == Find(Closest(c, "table"), "togglevisible")
  IN  UpdateRowEach(SetChecked(st, targets, st.checked[c]), targets)

\* copy 2's togglechildren handler: sets the property and fires nothing
TogglechildrenSilent(st, c) ==
  LET counted == IF c = st.origin
                 THEN [st EXCEPT !.propagations = @ + 1] ELSE st
  IN  SetChecked(counted, Find(Closest(c, "table"), "togglevisible"),
                 counted.checked[c])

\* the change handlers bound to c, in the order they were bound, when the
\* copies in inst have installed theirs
Handlers(c, inst) ==
  (IF 1 \in inst /\ "togglevisible" \in classes[c]
     THEN <<"UpdateRow">> ELSE <<>>)
  \o (IF 1 \in inst /\ "togglechildren" \in classes[c]
     THEN <<"cascade">> ELSE <<>>)
  \o (IF 1 \in inst /\ "togglesection" \in classes[c]
     THEN <<"section">> ELSE <<>>)
  \o (IF 2 \in inst /\ "togglevisible" \in classes[c]
     THEN <<"UpdateRow">> ELSE <<>>)
  \o (IF 2 \in inst /\ "togglechildren" \in classes[c]
     THEN <<"silent">> ELSE <<>>)

RECURSIVE Trigger(_, _, _, _)
RECURSIVE TriggerAll(_, _, _, _)
RECURSIVE RunHandlers(_, _, _, _, _)

\* copy 1's togglechildren handler without the .prop('checked', ...) call
TogglechildrenChangeNoProp(st, c, d, inst) ==
  TriggerAll(st, Find(Closest(c, "table"), "togglevisible"), d + 1, inst)

\* copy 1's togglechildren handler: sets the property on every togglevisible
\* checkbox of the table, then triggers change on each of them
TogglechildrenChange(st, c, d, inst) ==
  LET counted == IF c = st.origin
                 THEN [st EXCEPT !.propagations = @ + 1] ELSE st
      targets == Find(Closest(c, "table"), "togglevisible")
  IN  TriggerAll(SetChecked(counted, targets, counted.checked[c]),
                 targets, d + 1, inst)

\* one handler invocation at call depth d
RunHandler(st, h, c, d, inst) ==
  IF d > MaxStack THEN [st EXCEPT !.err = TRUE]
  ELSE CASE h = "UpdateRow" -> UpdateRow(st, c)
         [] h = "cascade" -> TogglechildrenChange(st, c, d, inst)
         [] h = "section" -> TogglesectionChange(st, c)
         [] OTHER -> TogglechildrenSilent(st, c)

\* jQuery runs the bound handlers in order; a throw ends the dispatch
RunHandlers(st, hs, c, d, inst) ==
  IF st.err \/ hs = <<>> THEN st
  ELSE RunHandlers(RunHandler(st, Head(hs), c, d, inst), Tail(hs), c, d, inst)

\* $(c).change(): dispatches change on c synchronously.  The event bubbles
\* to <tr>, <table> and the document, none of which has a handler bound.
Trigger(st, c, d, inst) ==
  IF st.err THEN st
  ELSE IF d > MaxStack THEN [st EXCEPT !.err = TRUE]
  ELSE RunHandlers(st, Handlers(c, inst), c, d + 1, inst)

\* $(set).change(): triggers change on each element in order
TriggerAll(st, targets, d, inst) ==
  IF st.err \/ targets = <<>> THEN st
  ELSE TriggerAll(Trigger(st, Head(targets), d, inst), Tail(targets), d, inst)

\* UpdateRow.bind(this)() on each element of a set, in order
UpdateRowEach(st, targets) ==
  IF targets = <<>> THEN st
  ELSE UpdateRowEach(UpdateRow(st, Head(targets)), Tail(targets))

\* copy 1's ready callback, checkbox part: bind, sync every row, then
\* trigger change on every togglesection checkbox
ReadyCopy1(st) ==
  TriggerAll(UpdateRowEach(st, Select("togglevisible")),
             Select("togglesection"), 1, {1})

\* copy 2's ready callback, checkbox part
ReadyCopy2(st) == UpdateRowEach(st, Select("togglevisible"))

PageState(origin) ==
  [checked |-> checked, ignore |-> ignore, err |-> FALSE,
   rowSyncs |-> 0, propagations |-> 0, origin |-> origin]

\* what is recorded of a dispatch; again: change was fired on the target of
\* the dispatch before it, with no change of state in between
Outcome(kind, target, st) ==
  [kind |-> kind, target |-> target, error |-> st.err,
   rowSyncs |-> st.rowSyncs, propagations |-> st.propagations,
   again |-> /\ kind = "trigger"
             /\ ready
             /\ last.kind \in {"change", "trigger"}
             /\ last.target = target]

-----------------------------------------------------------------------------
(* Text areas *)

\* px of '1em' at the default font size
EmPx == 16

LineHeight == EmPx + 2

Max(a, b) == IF a >= b THEN a ELSE b

\* lines the value wraps to at w characters per line (an empty value: one)
Lines(chars, w) == Max(1, (chars + w - 1) \div w)

\* the element's scrollHeight: the content's height, at least the box's own
ScrollHeight(chars, w, boxHeight) == Max(Lines(chars, w) * LineHeight, boxHeight)

\* update() of text area t in a window w characters wide: reset the height
\* to 1em, measure scrollHeight, set the height to it
update(hs, t, w) ==
  LET reset == [hs EXCEPT ![t] = EmPx]
      measured == ScrollHeight(content[t], w, reset[t])
  IN  [reset EXCEPT ![t] = measured]

\* update() of every text area of a set, in order
RECURSIVE UpdateEach(_, _, _)
UpdateEach(hs, targets, w) ==
  IF targets = <<>> THEN hs
  ELSE UpdateEach(update(hs, Head(targets), w), Tail(targets), w)

\* the text areas of the page, in document order
Areas == SelectInOrder(<<"X", "Y">>, DOMAIN content)

\* one event on text area t: the update bound by each copy in turn
RECURSIVE UpdateTimes(_, _, _)
UpdateTimes(hs, t, n) ==
  IF n = 0 THEN hs ELSE UpdateTimes(update(hs, t, width), t, n - 1)

\* a window resize: every update bound to the window, in binding order
RECURSIVE ResizeTimes(_, _, _)
ResizeTimes(hs, n, w) ==
  IF n = 0 THEN hs ELSE ResizeTimes(UpdateEach(hs, Areas, w), n - 1, w)

-----------------------------------------------------------------------------
(* Initial states: the page as its HTML gives it, the script loaded, the   *)
(* ready callbacks not yet run.                                            *)

NoEvent == [kind |-> "load", target |-> None, error |-> FALSE,
            rowSyncs |-> 0, propagations |-> 0, again |-> FALSE]

TextEvent(kind, target) == [NoEvent EXCEPT !.kind = kind, !.target = target]

\* a page of checkboxes, rows and a table, with no text area
Init ==
  /\ copies \in {{1}, {2}, {1, 2}}
  /\ classes \in {f \in [Checkbox -> SUBSET Marker] :
                     \A c \in Checkbox : f[c] \in ClassChoices(c)}
  /\ checked \in [Checkbox -> BOOLEAN]
  /\ \E b \in BOOLEAN : ignore = [e \in Row \cup Table |-> b]
  /\ ready = FALSE
  /\ installed = {}
  /\ sized = {}
  /\ last = NoEvent
  /\ content = <<>>
  /\ height = <<>>
  /\ width = MaxWidth

\* a page of text areas, whose checkboxes carry no marker class or whose
\* first checkbox carries all three
InitText ==
  /\ copies \in {{1}, {2}, {1, 2}}
  /\ \E m \in {{}, Marker} :
       classes = [c \in Checkbox |-> IF c = "A" THEN m ELSE {}]
  /\ checked = [c \in Checkbox |-> FALSE]
  /\ ignore = [e \in Row \cup Table |-> FALSE]
  /\ ready = FALSE
  /\ installed = {}
  /\ sized = {}
  /\ last = NoEvent
  /\ content \in [Textarea -> 0..MaxChars]
  /\ height = [t \in Textarea |-> 0]
  /\ width \in 1..MaxWidth

-----------------------------------------------------------------------------
(* Actions *)

\* The document is ready: jQuery runs the ready callbacks in the order the
\* file registered them.  A callback that throws stops there; whether the
\* callbacks after it still run depends on the jQuery build (3.x isolates
\* each callback, 1.x/2.x let the exception end the list).
Ready ==
  /\ ~ready
  /\ LET st0 == PageState(None)
         st1 == IF 1 \in copies THEN ReadyCopy1(st0) ELSE st0
         h1 == IF 1 \in copies /\ ~st1.err
               THEN UpdateEach(height, Areas, width) ELSE height
     IN  \E isolated \in BOOLEAN :
           LET runs2 == 2 \in copies /\ (st1.err => isolated)
               st2 == IF runs2
                      THEN ReadyCopy2([st1 EXCEPT !.err = FALSE]) ELSE st1
           IN  /\ (st1.err /\ 2 \in copies) \/ isolated
               /\ checked' = st2.checked
               /\ ignore' = st2.ignore
               /\ installed' = (copies \cap {1}) \cup (IF runs2 THEN {2} ELSE {})
               /\ sized' = (IF st1.err THEN {} ELSE copies \cap {1})
                            \cup (IF runs2 THEN {2} ELSE {})
               /\ height' = IF runs2 THEN UpdateEach(h1, Areas, width) ELSE h1
               /\ last' = [Outcome("ready", None, st2) EXCEPT !.error = st1.err]
  /\ ready' = TRUE
  /\ UNCHANGED <<copies, classes, content, width>>

\* the bound handlers run on a change event of checkbox c
Dispatch(c, kind, value) ==
  LET st0 == [PageState(c) EXCEPT !.checked = [@ EXCEPT ![c] = value]]
      st1 == Trigger(st0, c, 1, installed)
  IN  /\ checked' = st1.checked
      /\ ignore' = st1.ignore
      /\ last' = Outcome(kind, c, st1)
      /\ UNCHANGED <<copies, classes, ready, installed, sized,
                     content, height, width>>

\* the user clicks checkbox c: the browser flips checked, then fires change
UserChange(c) == Dispatch(c, "change", ~checked[c])

\* change is fired on c with its checked state as it is ($(c).change())
TriggerChange(c) == Dispatch(c, "trigger", checked[c])

\* an event on text area t that update is bound to
AreaEvent(t, kind) ==
  /\ height' = UpdateTimes(height, t, Cardinality(sized))
  /\ last' = TextEvent(kind, t)
  /\ UNCHANGED <<copies, classes, checked, ignore, ready, installed, sized,
                 content, width>>

KeyDown(t) == AreaEvent(t, "keydown")

KeyUp(t) == AreaEvent(t, "keyup")

AreaChange(t) == AreaEvent(t, "change")

\* the value of text area t changes (typing, paste, cut): no handler is
\* bound to this
Input(t) ==
  /\ \E n \in 0..MaxChars : n # content[t] /\ content' = [content EXCEPT ![t] = n]
  /\ last' = TextEvent("input", t)
  /\ UNCHANGED <<copies, classes, checked, ignore, ready, installed, sized,
                 height, width>>

\* the window is resized to another width
Resize ==
  /\ \E w \in 1..MaxWidth :
       /\ w # width
       /\ width' = w
       /\ height' = ResizeTimes(height, Cardinality(sized), w)
  /\ last' = TextEvent("resize", None)
  /\ UNCHANGED <<copies, classes, checked, ignore, ready, installed, sized,
                 content>>

Next ==
  \/ Ready
  \/ \E c \in Checkbox : UserChange(c)
  \/ \E c \in Checkbox : TriggerChange(c)

Spec == Init /\ [][Next]_vars

NextText ==
  \/ Ready
  \/ \E t \in Textarea : KeyDown(t)
  \/ \E t \in Textarea : KeyUp(t)
  \/ \E t \in Textarea : AreaChange(t)
  \/ \E t \in Textarea : Input(t)
  \/ Resize

SpecText == InitText /\ [][NextText]_vars

-----------------------------------------------------------------------------
(* Properties *)

\* the last step dispatched change on a checkbox with the handlers bound
Dispatched == ready /\ last.kind \in {"change", "trigger"}

\* the togglevisible checkboxes whose closest <tr> is r
RowBoxes(r) ==
  {c \in Checkbox : "togglevisible" \in classes[c] /\ Closest(c, "tr") = r}

\* c is a row-visibility checkbox, the only one of its closest <tr>
SoleRowBox(c) ==
  /\ "togglevisible" \in classes[c]
  /\ Closest(c, "tr") # None
  /\ RowBoxes(Closest(c, "tr")) = {c}

\* the row-visibility checkboxes inside the closest <table> of c
Children(c) ==
  {x \in Checkbox : "togglevisible" \in classes[x]
                     /\ IsInside(x, Closest(c, "table"))}

\* C1: after initialization and after every change event, the row of a
\* row-visibility checkbox that is alone in its row carries "ignore" exactly
\* when the checkbox is unchecked.
C1_RowIgnoreIffUnchecked ==
  ready =>
    \A c \in Checkbox :
      SoleRowBox(c) => (ignore[Closest(c, "tr")] <=> ~checked[c])

\* C2: after a change event on a children-toggle checkbox, every
\* row-visibility checkbox inside the toggle's table has the toggle's
\* checked state.
C2_ChildrenFollowToggle ==
  \A t \in Checkbox :
    (Dispatched /\ last.target = t /\ "togglechildren" \in classes[t])
      => \A x \in Children(t) : checked[x] = checked[t]

\* a toggle that is not itself a row checkbox was unchecked over the two
\* rows R1 and R2, whose checkboxes are now unchecked
C2_Witness ==
  /\ Dispatched
  /\ last.kind = "change"
  /\ last.target = "A"
  /\ classes["A"] = {"togglechildren"}
  /\ Children("A") = {"B", "C"}
  /\ \A x \in {"A", "B", "C"} : ~checked[x]

\* C3: with the cascading handler bound, after a change event on a
\* children-toggle checkbox every row of a checkbox the toggle set carries
\* "ignore" exactly when that checkbox is now unchecked.
C3_CascadeSyncsRows ==
  \A t \in Checkbox :
    (Dispatched /\ 1 \in installed /\ last.target = t
       /\ "togglechildren" \in classes[t])
      => \A x \in Children(t) :
           Closest(x, "tr") # None
             => (ignore[Closest(x, "tr")] <=> ~checked[x])

\* C4: with the section handler of copy 1, right after initialization and
\* after every change event on a section-toggle checkbox, its closest
\* <table> carries "ignore" exactly when the checkbox is unchecked.
C4_SectionIgnoreIffUnchecked ==
  \A c \in Checkbox :
    (/\ ready
     /\ 1 \in copies
     /\ "togglesection" \in classes[c]
     /\ Closest(c, "table") # None
     /\ last.kind = "ready" \/ (Dispatched /\ last.target = c))
      => (ignore[Closest(c, "table")] <=> ~checked[c])

\* C5: after initialization, after a window resize and after every change,
\* keyup or keydown event on a text area, its inline height is the
\* scrollHeight it has with the height reset to 1em.
C5_HeightIsScrollHeight ==
  \A t \in DOMAIN content :
    (ready /\ (\/ last.kind \in {"ready", "resize"}
               \/ (last.kind \in {"keydown", "keyup", "change"}
                     /\ last.target = t)))
      => height[t] = ScrollHeight(content[t], width, EmPx)

\* C6: firing change on a row-visibility checkbox a second time, its state
\* unchanged, leaves the "ignore" class of every row as the first firing
\* left it.
C6_RowSyncIdempotent ==
  [][(last'.again /\ "togglevisible" \in classes[last'.target])
       => \A r \in Row : ignore'[r] = ignore[r]]_vars

\* change was fired twice in a row on a row-visibility checkbox
C6_Witness ==
  /\ Dispatched
  /\ last.again
  /\ classes[last.target] = {"togglevisible"}
  /\ Closest(last.target, "tr") # None
  /\ ignore[Closest(last.target, "tr")]

\* C7: no handler runs before ready; afterwards every handler is bound once,
\* so a change event on a row-visibility checkbox runs UpdateRow once on it
\* and a change event on a children-toggle runs one propagation.
C7_BoundOnce ==
  /\ ~ready => (last.rowSyncs = 0 /\ last.propagations = 0)
  /\ \A c \in Checkbox :
       (Dispatched /\ last.target = c)
         => /\ classes[c] = {"togglevisible"} => last.rowSyncs = 1
            /\ classes[c] = {"togglechildren"} => last.propagations = 1

\* C8: for a row-visibility checkbox with no enclosing <tr>, UpdateRow
\* changes nothing; a change event on one that has no other handler than
\* UpdateRow changes no "ignore" class and no other checkbox, and ends
\* without error.
C8_NoRowNoOp ==
  [][\A c \in Checkbox :
       ("togglevisible" \in classes[c] /\ Closest(c, "tr") = None)
         => /\ UpdateRow(PageState(None), c) = PageState(None)
            /\ (ready /\ last'.kind \in {"change", "trigger"}
                   /\ last'.target = c /\ classes[c] = {"togglevisible"})
                 => /\ ignore' = ignore
                    /\ \A x \in Checkbox \ {c} : checked'[x] = checked[x]
                    /\ last'.kind = "trigger" => checked'[c] = checked[c]
                    /\ ~last'.error]_vars

\* change was dispatched on the row-visibility checkbox outside every <tr>
C8_Witness ==
  /\ Dispatched
  /\ last.kind = "change"
  /\ last.target = "D"
  /\ classes["D"] = {"togglevisible"}
  /\ Closest("D", "tr") = None
  /\ last.rowSyncs > 0
  /\ \E r \in Row : ignore[r]
  /\ \E r \in Row : ~ignore[r]

\* a step is a change event, handled by bound handlers, on checkbox t
DispatchOn(t) ==
  ready /\ last'.kind \in {"change", "trigger"} /\ last'.target = t

\* C9 as stated: with copy 2 alone, a change event on a children-toggle
\* checkbox changes only the checked property of the row-visibility
\* checkboxes of its table, and no "ignore" class.
C9_SilentFrame ==
  [][\A t \in Checkbox :
       (copies = {2} /\ DispatchOn(t) /\ "togglechildren" \in classes[t])
         => /\ ignore' = ignore
            /\ \A x \in Checkbox \ (Children(t) \cup {t}) :
                 checked'[x] = checked[x]]_vars

\* C9 amended: the same for a children-toggle that is not itself a
\* row-visibility checkbox; and with copy 2 alone the "ignore" class of a
\* row changes only in a change event on a row-visibility checkbox of that
\* row.
C9_SilentFrameOtherToggle ==
  [][/\ \A t \in Checkbox :
          (copies = {2} /\ DispatchOn(t)
             /\ "togglechildren" \in classes[t]
             /\ "togglevisible" \notin classes[t])
            => /\ ignore' = ignore
               /\ \A x \in Checkbox \ (Children(t) \cup {t}) :
                    checked'[x] = checked[x]
     /\ \A r \in Row :
          (copies = {2} /\ ready /\ ignore'[r] # ignore[r])
            => \E c \in RowBoxes(r) : DispatchOn(c)]_vars

\* with copy 2 alone a toggle was unchecked and the row of a checkbox it
\* unchecked still lacks "ignore"
C9_Witness ==
  /\ copies = {2}
  /\ Dispatched
  /\ last.kind = "change"
  /\ last.target = "A"
  /\ classes["A"] = {"togglechildren"}
  /\ "C" \in Children("A")
  /\ ~checked["A"]
  /\ ~checked["C"]
  /\ ~ignore["R2"]

\* C10: every dispatch runs to completion: no event, and no ready callback,
\* ends in the RangeError of an exhausted stack.
C10_DispatchTerminates == ~last.error

====
